---------------------------- MODULE Spec2Model ----------------------------
(***************************************************************************)
(* Model of the BotDespensa query pipeline (src/sources): the SQL text     *)
(* functions of query_optimizer.py, the safety gate and executor of        *)
(* assistant.py, the schema cache of table_info.py and the orchestrator    *)
(* process_question.                                                       *)
(*                                                                         *)
(* Text is modelled as a sequence of characters (one-character strings),    *)
(* so that the regular expressions of the source are computed character    *)
(* by character.                                                           *)
(***************************************************************************)
EXTENDS Integers, Sequences, FiniteSets, TLC

VARIABLES sql, optOut, cache, now, dbTables, checkedOut, last, calls

vars == <<sql, optOut, cache, now, dbTables, checkedOut, last, calls>>

(***************************************************************************)
(* Bounds of the model.                                                    *)
(***************************************************************************)
\* Longest optimizer input, in chunks of OptChunks.
MaxOptChunks == 4
\* Longest executor input, in chunks of ExecChunks.
MaxExecChunks == 3
\* Clock ticks in one hour, and the last tick of the clock.
TicksPerHour == 2
MaxTime == 2
\* the calls made on the concurrent threads in one behaviour
MaxCalls == 4
\* MAX_CACHE_SIZE (100 in table_info.py), scaled down to the model's tables.
MAX_CACHE_SIZE == 1

\* CACHE_EXPIRY_HOURS of table_info.py
CACHE_EXPIRY_HOURS == 1

(***************************************************************************)
(* Characters and character classes (Python's re: \w, \s, \d, IGNORECASE). *)
(***************************************************************************)
Lowers == <<"a","b","c","d","e","f","g","h","i","j","k","l","m",
            "n","o","p","q","r","s","t","u","v","w","x","y","z">>
Uppers == <<"A","B","C","D","E","F","G","H","I","J","K","L","M",
            "N","O","P","Q","R","S","T","U","V","W","X","Y","Z">>
Digits == {"0","1","2","3","4","5","6","7","8","9"}

Range(s) == {s[i] : i \in 1..Len(s)}

WordChars == Range(Lowers) \cup Range(Uppers) \cup Digits \cup {"_"}
SpaceChars == {" ", "\n", "\t"}

IsDigit(c) == c \in Digits
IsWord(c) == c \in WordChars
IsSpace(c) == c \in SpaceChars

UpperOf ==
    [c \in Range(Lowers) |-> Uppers[CHOOSE i \in 1..Len(Lowers) : Lowers[i] = c]]

Upper(c) == IF c \in DOMAIN UpperOf THEN UpperOf[c] ELSE c

\* s has p at position i
HasAt(s, i, p) ==
    /\ i >= 1
    /\ i + Len(p) - 1 <= Len(s)
    /\ \A k \in 1..Len(p) : s[i + k - 1] = p[k]

\* the same, ignoring letter case (re.IGNORECASE)
HasAtCI(s, i, p) ==
    /\ i >= 1
    /\ i + Len(p) - 1 <= Len(s)
    /\ \A k \in 1..Len(p) : Upper(s[i + k - 1]) = Upper(p[k])

Contains(s, p) == \E i \in 1..Len(s) : HasAt(s, i, p)
ContainsCI(s, p) == \E i \in 1..Len(s) : HasAtCI(s, i, p)

\* first index >= j whose character is not in the class (Len(s)+1 if none)
RunEnd(s, j, InClass(_)) ==
    LET stops == {k \in j..Len(s) + 1 : k = Len(s) + 1 \/ ~InClass(s[k])}
    IN  CHOOSE k \in stops : \A m \in stops : k <= m

\* str.strip(): leading and trailing whitespace removed
Strip(s) ==
    LET keep == {i \in 1..Len(s) : ~IsSpace(s[i])}
    IN  IF keep = {} THEN <<>>
        ELSE LET lo == CHOOSE i \in keep : \A m \in keep : i <= m
                 hi == CHOOSE i \in keep : \A m \in keep : i >= m
             IN  SubSeq(s, lo, hi)

\* every run of whitespace replaced by one space: re.sub(r'\s+', ' ', s)
RECURSIVE CollapseFrom(_, _)
CollapseFrom(s, i) ==
    IF i > Len(s) THEN <<>>
    ELSE IF IsSpace(s[i]) THEN <<" ">> \o CollapseFrom(s, RunEnd(s, i, IsSpace))
    ELSE <<s[i]>> \o CollapseFrom(s, i + 1)

CollapseSpaces(s) == CollapseFrom(s, 1)

\* ' '.join(s.split())
SplitJoin(s) == Strip(CollapseSpaces(s))

\* str.rstrip(';')
RECURSIVE RStripSemi(_)
RStripSemi(s) ==
    IF Len(s) > 0 /\ s[Len(s)] = ";" THEN RStripSemi(SubSeq(s, 1, Len(s) - 1))
    ELSE s

(***************************************************************************)
(* QueryOptimizer.fix_markdown_artifacts                                   *)
(***************************************************************************)
\* The backtick character (a character SANY does not accept in a string).
Backquote == "BACKQUOTE"
Fence == <<Backquote, Backquote, Backquote>>
CommentOpen == <<"<","!","-","-">>
CommentClose == <<"-","-",">">>

\* re.sub(r'FENCE\w*\n?', '', s), FENCE being three backticks
RECURSIVE StripOpenFences(_, _)
StripOpenFences(s, i) ==
    IF i > Len(s) THEN <<>>
    ELSE IF HasAt(s, i, Fence)
    THEN LET j == RunEnd(s, i + 3, IsWord)
             k == IF j <= Len(s) /\ s[j] = "\n" THEN j + 1 ELSE j
         IN  StripOpenFences(s, k)
    ELSE <<s[i]>> \o StripOpenFences(s, i + 1)

\* re.sub(r'\n?FENCE', '', s)
RECURSIVE StripCloseFences(_, _)
StripCloseFences(s, i) ==
    IF i > Len(s) THEN <<>>
    ELSE IF s[i] = "\n" /\ HasAt(s, i + 1, Fence) THEN StripCloseFences(s, i + 4)
    ELSE IF HasAt(s, i, Fence) THEN StripCloseFences(s, i + 3)
    ELSE <<s[i]>> \o StripCloseFences(s, i + 1)

\* re.sub(r'<!--.*?-->', '', s, flags=re.DOTALL)
RECURSIVE StripHtmlComments(_, _)
StripHtmlComments(s, i) ==
    IF i > Len(s) THEN <<>>
    ELSE LET ends == {j \in i + 4..Len(s) : HasAt(s, j, CommentClose)}
         IN  IF HasAt(s, i, CommentOpen) /\ ends # {}
             THEN LET j == CHOOSE e \in ends : \A m \in ends : e <= m
                  IN  StripHtmlComments(s, j + 3)
             ELSE <<s[i]>> \o StripHtmlComments(s, i + 1)

\* the variant that removes the fences but not the language tag after them
fix_markdown_artifacts_fence_only(query) ==
    LET q2 == StripCloseFences(query, 1)
        q3 == StripHtmlComments(q2, 1)
    IN  Strip(SplitJoin(q3))

fix_markdown_artifacts(query) ==
    LET q1 == StripOpenFences(query, 1)
        q2 == StripCloseFences(q1, 1)
        q3 == StripHtmlComments(q2, 1)
    IN  Strip(SplitJoin(q3))

(***************************************************************************)
(* QueryOptimizer.fix_sql_syntax_issues                                    *)
(***************************************************************************)
LimitWord == <<"L","I","M","I","T">>

\* A match of LIMIT\s+\d+ (IGNORECASE) that starts at i: the index after it,
\* or 0 when there is none.
LimitMatchEnd(s, i) ==
    IF ~HasAtCI(s, i, LimitWord) THEN 0
    ELSE LET a == i + 5
             b == RunEnd(s, a, IsSpace)
             c == RunEnd(s, b, IsDigit)
         IN  IF b > a /\ c > b THEN c ELSE 0

\* re.sub(r';\s*LIMIT\s+(\d+)', r' LIMIT \1;', s, flags=re.IGNORECASE)
RECURSIVE MoveSemiAfterLimit(_, _)
MoveSemiAfterLimit(s, i) ==
    IF i > Len(s) THEN <<>>
    ELSE IF s[i] = ";"
    THEN LET l == RunEnd(s, i + 1, IsSpace)
             e == LimitMatchEnd(s, l)
         IN  IF e # 0
             THEN LET d == RunEnd(s, l + 5, IsSpace)
                  IN  <<" ">> \o LimitWord \o <<" ">> \o SubSeq(s, d, e - 1)
                        \o <<";">> \o MoveSemiAfterLimit(s, e)
             ELSE <<s[i]>> \o MoveSemiAfterLimit(s, i + 1)
    ELSE <<s[i]>> \o MoveSemiAfterLimit(s, i + 1)

IsSemi(c) == c = ";"

\* re.sub(r';+', ';', s)
RECURSIVE CollapseSemis(_, _)
CollapseSemis(s, i) ==
    IF i > Len(s) THEN <<>>
    ELSE IF s[i] = ";" THEN <<";">> \o CollapseSemis(s, RunEnd(s, i, IsSemi))
    ELSE <<s[i]>> \o CollapseSemis(s, i + 1)

fix_sql_syntax_issues(query) ==
    LET q1 == Strip(CollapseSpaces(query))
        q2 == MoveSemiAfterLimit(q1, 1)
        q3 == CollapseSemis(q2, 1)
    IN  RStripSemi(q3)

(***************************************************************************)
(* QueryOptimizer.add_error_resilience                                     *)
(***************************************************************************)
\* \b before a word character at i
WordStartAt(s, i) == i = 1 \/ ~IsWord(s[i - 1])

\* the positions where r'\bLIMIT\s+\d+' (IGNORECASE) matches
LimitClauseStarts(s) ==
    {i \in 1..Len(s) : WordStartAt(s, i) /\ LimitMatchEnd(s, i) # 0}

HasLimitClause(s) == LimitClauseStarts(s) # {}

DefaultLimit == <<" ","L","I","M","I","T"," ","1","0","0","0">>

\* a variant that looks for the word LIMIT alone, without its number
add_error_resilience_word_only(query) ==
    LET q == Strip(query)
    IN  IF ~ContainsCI(q, LimitWord) THEN q \o DefaultLimit ELSE q

add_error_resilience(query) ==
    LET q == Strip(query)
    IN  IF ~HasLimitClause(q) THEN q \o DefaultLimit ELSE q

(***************************************************************************)
(* QueryOptimizer.validate_and_enhance_query                               *)
(***************************************************************************)
WarnMarkdown == "Se removieron artefactos de markdown de la consulta"
WarnResilience == "Se agregaron elementos de resistencia a errores"
WarnSyntax == "Se corrigieron problemas de sintaxis SQL"

validate_and_enhance_query(query) ==
    LET cleaned == fix_markdown_artifacts(query)
        w1 == IF cleaned # query THEN <<WarnMarkdown>> ELSE <<>>
        resilient == add_error_resilience(cleaned)
        w2 == IF resilient # cleaned THEN <<WarnResilience>> ELSE <<>>
        fixed == fix_sql_syntax_issues(resilient)
        w3 == IF fixed # resilient THEN <<WarnSyntax>> ELSE <<>>
    IN  [query |-> fixed, warnings |-> w1 \o w2 \o w3]

(***************************************************************************)
(* diagnose_query_error                                                    *)
(***************************************************************************)
UnknownColumnText == <<"u","n","k","n","o","w","n"," ","c","o","l","u","m","n">>
SyntaxErrorText == <<"s","y","n","t","a","x"," ","e","r","r","o","r">>
SqlSyntaxText ==
    <<"y","o","u"," ","h","a","v","e"," ","a","n"," ","e","r","r","o","r"," ",
      "i","n"," ","y","o","u","r"," ","s","q","l"," ","s","y","n","t","a","x">>
TableText == <<"t","a","b","l","e">>
DoesntExistText == <<"d","o","e","s","n","'","t"," ","e","x","i","s","t">>
NotFoundText == <<"n","o","t"," ","f","o","u","n","d">>

\* The error type and whether an automatic fix exists.  error_lower is the
\* message lower-cased, so its tests ignore case; the fence test does not.
diagnose_query_error(error_message, query) ==
    IF Contains(error_message, Fence)
    THEN [error_type |-> "markdown_artifacts", auto_fix_available |-> TRUE]
    ELSE IF ContainsCI(error_message, UnknownColumnText)
    THEN [error_type |-> "unknown_column", auto_fix_available |-> FALSE]
    ELSE IF ContainsCI(error_message, SyntaxErrorText)
            \/ ContainsCI(error_message, SqlSyntaxText)
    THEN [error_type |-> "syntax_error", auto_fix_available |-> FALSE]
    ELSE IF ContainsCI(error_message, TableText)
            /\ (ContainsCI(error_message, DoesntExistText)
                \/ ContainsCI(error_message, NotFoundText))
    THEN [error_type |-> "table_not_found", auto_fix_available |-> FALSE]
    ELSE [error_type |-> "unknown", auto_fix_available |-> FALSE]

(***************************************************************************)
(* SQLValidator (validators.py): its patterns and validate_sql_query.      *)
(***************************************************************************)
\* \bWORD\b somewhere in s, ignoring case
HasWholeWordCI(s, w) ==
    \E i \in 1..Len(s) :
        /\ HasAtCI(s, i, w)
        /\ WordStartAt(s, i)
        /\ (i + Len(w) > Len(s) \/ ~IsWord(s[i + Len(w)]))

MutatingKeywords ==
    {<<"D","E","L","E","T","E">>, <<"D","R","O","P">>, <<"A","L","T","E","R">>,
     <<"T","R","U","N","C","A","T","E">>, <<"I","N","S","E","R","T">>,
     <<"U","P","D","A","T","E">>, <<"C","R","E","A","T","E">>,
     <<"R","E","N","A","M","E">>, <<"R","E","V","O","K","E">>,
     <<"G","R","A","N","T">>}

ExecKeywords == {<<"E","X","E","C">>, <<"E","X","E","C","U","T","E">>}

\* r'--'
HasInlineComment(s) == Contains(s, <<"-","-">>)

\* r'/\*.*?\*/' with re.DOTALL
HasBlockComment(s) ==
    \E i \in 1..Len(s) : \E j \in i + 2..Len(s) :
        HasAt(s, i, <<"/","*">>) /\ HasAt(s, j, <<"*","/">>)

DANGEROUS_PATTERNS(s) ==
    \/ \E w \in MutatingKeywords : HasWholeWordCI(s, w)
    \/ HasInlineComment(s)
    \/ HasBlockComment(s)
    \/ \E w \in ExecKeywords : HasWholeWordCI(s, w)

\* TRUE when the query passes, FALSE when ValidationError is raised
validate_sql_query(query) == query # <<>> /\ ~DANGEROUS_PATTERNS(query)

(***************************************************************************)
(* execute_query (assistant.py)                                            *)
(***************************************************************************)
forbidden_words == MutatingKeywords

\* a variant of the gate without re.IGNORECASE
GateRefuses_case_sensitive(query) ==
    \E word \in forbidden_words : Contains(query, word)

\* for word in forbidden_words: if re.search(word, query, re.IGNORECASE)
GateRefuses(query) == \E word \in forbidden_words : ContainsCI(query, word)

RefusalMessage == "Disculpa, no tengo permisos para hacer eso."
Refusal == [kind |-> "refusal", error |-> RefusalMessage, n |-> 0]

\* What the database does with one attempt of a call.
\*   connfail  get_db_connection raises
\*   rows      the statement runs and returns n rows
\*   sqlerror  the driver raises SQLAlchemyError; text is the server's part of
\*             the message, which SQLAlchemy follows with the statement
\*   other     another exception (a value json.dumps cannot serialise)
RowCounts == {0, 1, 2}

ServerTexts ==
    {<<"Y","o","u"," ","h","a","v","e"," ","a","n"," ","e","r","r","o","r"," ",
       "i","n"," ","y","o","u","r"," ","S","Q","L"," ","s","y","n","t","a","x">>,
     <<"U","n","k","n","o","w","n"," ","c","o","l","u","m","n"," ","'","x","'">>,
     <<"T","a","b","l","e"," ","'","x","'"," ",
       "d","o","e","s","n","'","t"," ","e","x","i","s","t">>,
     <<"D","e","a","d","l","o","c","k"," ","f","o","u","n","d">>,
     <<"n","e","a","r"," ">> \o Fence}

DbOutcomes ==
    {[kind |-> "connfail", n |-> 0, text |-> <<>>],
     [kind |-> "other", n |-> 0, text |-> <<>>]}
    \cup {[kind |-> "rows", n |-> k, text |-> <<>>] : k \in RowCounts}
    \cup {[kind |-> "sqlerror", n |-> 0, text |-> t] : t \in ServerTexts}

\* str(error): the server's text, then the statement
ErrorMessage(text, statement) == text \o <<" ">> \o statement

\* a finally clause that runs on return only
ClosesOnExit_return_only(exit, connection) ==
    IF connection /\ exit = "return" THEN 1 ELSE 0

\* finally: if connection: connection.close()   (1 when it closes one)
ClosesOnExit(exit, connection) == IF connection THEN 1 ELSE 0

\* The body of execute_query for a query whose gate verdict (refused), text
\* after validate_and_enhance_query (optimized_query) and text after
\* fix_markdown_artifacts (fixed_query) are given, when the database answers
\* this attempt with outcome.  A retry meets any outcome, so the value is the
\* set of possible results: each holds the payload, the attempts made
\* (top-level first) and the connections opened and closed.  (The except
\* around the optimizer, which keeps the query as it is, cannot be taken:
\* the optimizer raises on no text.)
RECURSIVE ExecuteQuery(_, _)
ExecuteBody(query, refused, optimized_query, fixed_query, outcome) ==
    IF refused
    THEN {[result |-> Refusal, attempts |-> <<>>, opened |-> 0, closed |-> 0]}
    ELSE
    LET here(sent, diag) ==
            [query |-> query, optimized |-> optimized_query,
             outcome |-> outcome.kind, sent |-> sent, error_type |-> diag]
    IN  CASE outcome.kind = "connfail" ->
               {[result |-> [kind |-> "error", error |-> "conexion", n |-> 0],
                 attempts |-> <<here(FALSE, "none")>>,
                 opened |-> 0, closed |-> ClosesOnExit("exception", FALSE)]}
          [] outcome.kind = "rows" ->
               {[result |-> [kind |-> "rows", error |-> "", n |-> outcome.n],
                 attempts |-> <<here(TRUE, "none")>>,
                 opened |-> 1, closed |-> ClosesOnExit("return", TRUE)]}
          [] outcome.kind = "other" ->
               {[result |-> [kind |-> "error", error |-> "exception", n |-> 0],
                 attempts |-> <<here(TRUE, "none")>>,
                 opened |-> 1, closed |-> ClosesOnExit("exception", TRUE)]}
          [] outcome.kind = "sqlerror" ->
               LET diagnosis ==
                       diagnose_query_error(
                           ErrorMessage(outcome.text, optimized_query),
                           optimized_query)
                   frame == here(TRUE, diagnosis.error_type)
               IN  IF /\ diagnosis.auto_fix_available
                      /\ optimized_query = query
                      /\ diagnosis.error_type = "markdown_artifacts"
                      /\ fixed_query # query
                   THEN {[result |-> r.result,
                          attempts |-> <<frame>> \o r.attempts,
                          opened |-> 1 + r.opened,
                          closed |-> r.closed + ClosesOnExit("retry", TRUE)] :
                            r \in UNION {ExecuteQuery(fixed_query, o) :
                                            o \in DbOutcomes}}
                   ELSE {[result |-> [kind |-> "sqlerror",
                                      error |-> diagnosis.error_type, n |-> 0],
                          attempts |-> <<frame>>,
                          opened |-> 1,
                          closed |-> ClosesOnExit("sqlerror", TRUE)]}

ExecuteQuery(query, outcome) ==
    UNION {ExecuteBody(a.query, a.refused, a.optimized_query, a.fixed_query,
                       outcome) :
             a \in {[query |-> query,
                     refused |-> GateRefuses(query),
                     optimized_query |-> validate_and_enhance_query(query).query,
                     fixed_query |-> fix_markdown_artifacts(query)]}}

\* the statements one call sent to the database, in order
SentBy(attempts) ==
    LET idx == {i \in 1..Len(attempts) : attempts[i].sent}
        RECURSIVE Pick(_)
        Pick(i) == IF i > Len(attempts) THEN <<>>
                   ELSE IF i \in idx THEN <<attempts[i].optimized>> \o Pick(i + 1)
                   ELSE Pick(i + 1)
    IN  Pick(1)

(***************************************************************************)
(* The schema cache (table_info.py).                                       *)
(*                                                                         *)
(* cache is the dict in insertion order of its keys: a sequence of         *)
(* entries.  An entry of a table holds table_info with timestamp and       *)
(* table_sample with sample_timestamp; the entry of key db_info holds the  *)
(* mapping of tables with timestamp.  A missing field is NoValue / NoTime. *)
(* The columns and rows of the database are those of the current tick, so  *)
(* a schema or sample value is the tick at which it was read.  Table names *)
(* differ from the key db_info.                                            *)
(***************************************************************************)
Tables == {"clientes", "productos"}
DbInfoKey == "db_info"

NoValue == -1
NoTime == -1
EmptyMap == [t \in {} |-> 0]

Keys(c) == [i \in 1..Len(c) |-> c[i].key]
HasKey(c, k) == \E i \in 1..Len(c) : c[i].key = k
EntryOf(c, k) == c[CHOOSE i \in 1..Len(c) : c[i].key = k]

NewEntry(k) ==
    [key |-> k, table_info |-> NoValue, timestamp |-> NoTime,
     table_sample |-> NoValue, sample_timestamp |-> NoTime, db_info |-> EmptyMap]

\* a store that puts the key written last, as a move-to-end on access would
Put_moves_to_end(c, k, e) ==
    LET Other(x) == x.key # k
    IN  Append(SelectSeq(c, Other), e)

\* cache[k] = e: a present key keeps its place, a new key goes last
Put(c, k, e) ==
    IF HasKey(c, k)
    THEN [i \in 1..Len(c) |-> IF c[i].key = k THEN e ELSE c[i]]
    ELSE Append(c, e)

\* cache[k] as the defaultdict gives it for writing a field
Slot(c, k) == IF HasKey(c, k) THEN EntryOf(c, k) ELSE NewEntry(k)

\* the expiry window, in ticks
ExpiryWindow == CACHE_EXPIRY_HOURS * TicksPerHour

\* a comparison that still serves an entry exactly one window old
IsFresh_inclusive(stamp, t) == t - stamp <= ExpiryWindow

\* time_diff < timedelta(hours=CACHE_EXPIRY_HOURS)
IsFresh(stamp, t) == t - stamp < ExpiryWindow

\* an eviction that removes the last len // 2 keys instead
clear_cache_if_needed_keeps_oldest(c) ==
    IF Len(c) > MAX_CACHE_SIZE
    THEN SubSeq(c, 1, Len(c) - (Len(c) \div 2))
    ELSE c

\* clear_cache_if_needed: the keys removed are the first len // 2
clear_cache_if_needed(c) ==
    IF Len(c) > MAX_CACHE_SIZE
    THEN SubSeq(c, (Len(c) \div 2) + 1, Len(c))
    ELSE c

\* the result of a lookup: the cache it leaves, what it returns or raises,
\* the introspections and sample queries it made, the connections it opened
\* and closed, and the keys clear_cache_if_needed kept when it removed some
Answer(c, ret, raised, listed, fetched, hit, kept) ==
    [cache |-> c, ret |-> ret, raised |-> raised, listed |-> listed,
     fetched |-> fetched, hit |-> hit, kept |-> kept,
     opened |-> 0, closed |-> 0, swallowed |-> "none"]

KeptBy(c) == IF Len(c) > MAX_CACHE_SIZE THEN <<Keys(clear_cache_if_needed(c))>>
             ELSE <<>>

\* the columns and rows the database holds at tick t
DataAt(t) == t

\* get_db_info.  up: the engine and inspector answer; broken: the tables
\* whose get_columns raises (they are skipped)
get_db_info(c, t, tables, up, broken) ==
    IF /\ HasKey(c, DbInfoKey)
       /\ EntryOf(c, DbInfoKey).timestamp # NoTime
       /\ IsFresh(EntryOf(c, DbInfoKey).timestamp, t)
    THEN Answer(c, EntryOf(c, DbInfoKey).db_info, "none", {}, 0, TRUE, <<>>)
    ELSE IF ~up
    THEN [Answer(c, EmptyMap, "none", {}, 1, FALSE, <<>>) EXCEPT
            !.swallowed = "db_error"]
    ELSE LET db_info == [n \in tables \ broken |-> DataAt(t)]
             e == [NewEntry(DbInfoKey) EXCEPT !.db_info = db_info,
                                              !.timestamp = t]
         IN  [Answer(Put(c, DbInfoKey, e), db_info, "none", {}, 1, FALSE,
                     <<>>) EXCEPT
                !.swallowed = IF tables \cap broken # {} THEN "columns"
                              ELSE "none"]

\* a not-found error whose message lists no table
TableNotFound_without_list(c, existing_tables, kept) ==
    Answer(c, NoValue, "not_found", {}, 1, FALSE, kept)

\* the exception of get_table_info for a missing table; its message lists
\* existing_tables
TableNotFound(c, existing_tables, kept) ==
    Answer(c, NoValue, "not_found", existing_tables, 1, FALSE, kept)

get_table_info(c, table_name, t, tables, up) ==
    IF /\ HasKey(c, table_name)
       /\ EntryOf(c, table_name).table_info # NoValue
       /\ EntryOf(c, table_name).timestamp # NoTime
       /\ IsFresh(EntryOf(c, table_name).timestamp, t)
    THEN Answer(c, EntryOf(c, table_name).table_info, "none", {}, 0, TRUE, <<>>)
    ELSE LET c1 == clear_cache_if_needed(c)
             kept == KeptBy(c)
         IN  IF ~up THEN Answer(c1, NoValue, "db_error", {}, 1, FALSE, kept)
             ELSE IF table_name \notin tables
             THEN TableNotFound(c1, tables, kept)
             ELSE LET e == [Slot(c1, table_name) EXCEPT !.table_info = DataAt(t),
                                                        !.timestamp = t]
                  IN  Answer(Put(c1, table_name, e), DataAt(t), "none", {}, 1,
                             FALSE, kept)

\* finally: if connection: connection.close()   (1 when it closes one)
SampleClosesOnExit(exit, connection) == IF connection THEN 1 ELSE 0

\* get_table_sample.  conn: get_db_connection succeeds; run: the SELECT
\* succeeds
get_table_sample(c, table_name, t, tables, up, conn, run) ==
    IF /\ HasKey(c, table_name)
       /\ EntryOf(c, table_name).table_sample # NoValue
       /\ EntryOf(c, table_name).sample_timestamp # NoTime
       /\ IsFresh(EntryOf(c, table_name).sample_timestamp, t)
    THEN Answer(c, EntryOf(c, table_name).table_sample, "none", {}, 0, TRUE,
                <<>>)
    ELSE LET c1 == clear_cache_if_needed(c)
             kept == KeptBy(c)
             failed(kind) == Answer(c1, NoValue, kind, {}, 1, FALSE, kept)
         IN  IF ~up THEN failed("db_error")
             ELSE IF table_name \notin tables THEN failed("not_found")
             ELSE IF ~conn
             THEN [failed("db_error") EXCEPT
                     !.closed = SampleClosesOnExit("exception", FALSE)]
             ELSE IF ~run
             THEN [failed("db_error") EXCEPT
                     !.opened = 1,
                     !.closed = SampleClosesOnExit("exception", TRUE)]
             ELSE LET e == [Slot(c1, table_name) EXCEPT
                              !.table_sample = DataAt(t),
                              !.sample_timestamp = t]
                  IN  [Answer(Put(c1, table_name, e), DataAt(t), "none", {}, 1,
                              FALSE, kept) EXCEPT
                         !.opened = 1,
                         !.closed = SampleClosesOnExit("return", TRUE)]

\* clear_cache
clear_cache(c) == <<>>

(***************************************************************************)
(* The cached lookups one dictionary operation at a time, as a thread that *)
(* shares the cache with others runs them.  A thread in a call is          *)
(*   pc     the operation it is about to do                                *)
(*   op, key   the lookup and the key it was called for                    *)
(*   started   now = datetime.now() at the top of get_db_info               *)
(*   n, keys, i   items_to_remove, list(cache.keys()) and the place in it  *)
(*   value  what it fetched                                                *)
(* and between calls it keeps how the last one ended (result, ret).        *)
(***************************************************************************)
NewCall(op, key, t) ==
    [pc |-> IF op = "clear_cache" THEN "clear" ELSE "in_cache",
     op |-> op, key |-> key, started |-> t,
     n |-> 0, keys |-> <<>>, i |-> 0, value |-> NoValue]

\* return ret, or raise: result is "returned" or the exception
Finished(th, result, ret) ==
    [pc |-> "idle", op |-> th.op, key |-> th.key, result |-> result,
     ret |-> ret]

\* one operation done: the cache and the thread after it
Step(c, th) == [cache |-> c, thread |-> th, fetched |-> {}]

\* cache[k] read on the defaultdict: a missing key is inserted with {}
Touch(c, k) == IF HasKey(c, k) THEN c ELSE Append(c, NewEntry(k))

\* del cache[k]
Remove(c, k) ==
    LET Other(e) == e.key # k
    IN  SelectSeq(c, Other)

\* the cache check of a lookup, from the membership test to the return
check_step(c, t, th) ==
    LET e == Slot(c, th.key)
        c1 == Touch(c, th.key)
        \* the value and the timestamp the lookup looks for in cache[k]
        value == CASE th.op = "get_table_info" -> e.table_info
                   [] th.op = "get_table_sample" -> e.table_sample
                   [] OTHER -> e.db_info
        stamp == IF th.op = "get_table_sample" THEN e.sample_timestamp
                 ELSE e.timestamp
        \* where the lookup goes when the cache does not serve it
        miss == IF th.op = "get_db_info" THEN "fetch" ELSE "evict_len"
    IN  CASE th.pc = "in_cache" ->
               \* table_name in cache / 'db_info' in cache
               Step(c, [th EXCEPT !.pc = IF ~HasKey(c, th.key) THEN miss
                                         ELSE IF th.op = "get_db_info"
                                         THEN "stamp_in_entry"
                                         ELSE "value_in_entry"])
          [] th.pc = "value_in_entry" ->
               \* 'table_info' in cache[table_name]
               Step(c1, [th EXCEPT !.pc = IF value # NoValue
                                          THEN "stamp_in_entry" ELSE miss])
          [] th.pc = "stamp_in_entry" ->
               \* 'timestamp' in cache[table_name]
               Step(c1, [th EXCEPT !.pc = IF stamp # NoTime
                                          THEN "read_stamp" ELSE miss])
          [] th.pc = "read_stamp" ->
               \* time_diff = now - cache[table_name]['timestamp']
               \* if time_diff < timedelta(hours=CACHE_EXPIRY_HOURS)
               IF stamp = NoTime
               THEN Step(c1, Finished(th, "KeyError", NoValue))
               ELSE Step(c1, [th EXCEPT !.pc =
                                IF IsFresh(stamp, IF th.op = "get_db_info"
                                                  THEN th.started ELSE t)
                                THEN "read_value" ELSE miss])
          [] OTHER ->
               \* return cache[table_name]['table_info']
               \* return {k: v for k, v in cache['db_info'].items() ...}
               IF th.op # "get_db_info" /\ value = NoValue
               THEN Step(c1, Finished(th, "KeyError", NoValue))
               ELSE Step(c1, Finished(th, "returned", value))

\* clear_cache_if_needed, from len(cache) > MAX_CACHE_SIZE to the last del
evict_step(c, th) ==
    CASE th.pc = "evict_len" ->
           Step(c, [th EXCEPT !.pc = IF Len(c) > MAX_CACHE_SIZE
                                     THEN "evict_count" ELSE "fetch"])
      [] th.pc = "evict_count" ->
           \* items_to_remove = len(cache) // 2
           Step(c, [th EXCEPT !.pc = "evict_keys", !.n = Len(c) \div 2])
      [] th.pc = "evict_keys" ->
           \* enumerate(list(cache.keys()))
           Step(c, [th EXCEPT !.pc = "evict_del", !.keys = Keys(c), !.i = 1])
      [] OTHER ->
           \* if i >= items_to_remove: break
           \* del cache[key]
           IF th.i > Len(th.keys) \/ th.i > th.n
           THEN Step(c, [th EXCEPT !.pc = "fetch", !.n = 0, !.keys = <<>>,
                                   !.i = 0])
           ELSE IF ~HasKey(c, th.keys[th.i])
           THEN Step(c, Finished(th, "KeyError", NoValue))
           ELSE Step(Remove(c, th.keys[th.i]), [th EXCEPT !.i = @ + 1])

\* the fetch and the stores of a lookup (the tables it is called for exist)
fetch_step(c, t, tables, th) ==
    LET e == Slot(c, th.key)
        fetched == IF th.op = "get_db_info"
                   THEN [n \in tables |-> DataAt(t)] ELSE DataAt(t)
    IN  CASE th.pc = "fetch" ->
               [cache |-> c,
                thread |-> [th EXCEPT !.value = fetched,
                                      !.pc = IF th.op = "get_db_info"
                                             THEN "store" ELSE "store_value"],
                fetched |-> {<<th.op, th.key, fetched>>}]
          [] th.pc = "store" ->
               \* db_info['timestamp'] = now; cache['db_info'] = db_info
               Step(Put(c, th.key, [NewEntry(th.key) EXCEPT
                                      !.db_info = th.value,
                                      !.timestamp = th.started]),
                    Finished(th, "returned", th.value))
          [] th.pc = "store_value" ->
               \* cache[table_name]['table_info'] = table_info
               Step(Put(c, th.key,
                        IF th.op = "get_table_info"
                        THEN [e EXCEPT !.table_info = th.value]
                        ELSE [e EXCEPT !.table_sample = th.value]),
                    [th EXCEPT !.pc = "store_stamp"])
          [] OTHER ->
               \* cache[table_name]['timestamp'] = datetime.now()
               Step(Put(c, th.key,
                        IF th.op = "get_table_info"
                        THEN [e EXCEPT !.timestamp = t]
                        ELSE [e EXCEPT !.sample_timestamp = t]),
                    Finished(th, "returned", th.value))

\* the next dictionary operation of a thread in a call
thread_step(c, t, tables, th) ==
    IF th.pc = "clear" THEN Step(clear_cache(c), Finished(th, "returned", NoValue))
    ELSE IF th.pc \in {"in_cache", "value_in_entry", "stamp_in_entry",
                       "read_stamp", "read_value"}
    THEN check_step(c, t, th)
    ELSE IF th.pc \in {"evict_len", "evict_count", "evict_keys", "evict_del"}
    THEN evict_step(c, th)
    ELSE fetch_step(c, t, tables, th)

(***************************************************************************)
(* process_question (assistant.py) and its stages.                         *)
(***************************************************************************)
\* validate_text_input(question, max_length=500, min_length=5)
min_length == 5
max_length == 500

\* a question: its length and whether it holds a forbidden control character
Questions == [len : {4, 5, 501}, control : BOOLEAN]

\* a validation that looks at the length only
validate_text_input_length_only(text) ==
    text.len >= min_length /\ text.len <= max_length

\* TRUE when the text passes, FALSE when ValidationError is raised
validate_text_input(text) ==
    /\ text.len >= min_length
    /\ text.len <= max_length
    /\ ~text.control

\* the order in which the inspector lists tables
TableOrder == <<"clientes", "productos">>

\* list(db_info.keys())[0]
first_table(db_info) ==
    TableOrder[CHOOSE i \in 1..Len(TableOrder) :
                  /\ TableOrder[i] \in DOMAIN db_info
                  /\ \A j \in 1..(i - 1) : TableOrder[j] \notin DOMAIN db_info]

\* what the model answers when asked for a table; "fail": llm.invoke raises
TableResponses == Tables \cup {"CLIENTES", "otra", "fail"}

\* the characters of the names
NameChars ==
    [clientes |-> <<"c","l","i","e","n","t","e","s">>,
     productos |-> <<"p","r","o","d","u","c","t","o","s">>,
     CLIENTES |-> <<"C","L","I","E","N","T","E","S">>,
     otra |-> <<"o","t","r","a">>]

LowerOf ==
    [c \in Range(Uppers) |-> Lowers[CHOOSE i \in 1..Len(Uppers) : Uppers[i] = c]]

\* str.lower()
LowerText(s) ==
    [i \in 1..Len(s) |-> IF s[i] \in DOMAIN LowerOf THEN LowerOf[s[i]] ELSE s[i]]

\* response.replace('"', '').replace("'", '').replace('.', '').replace(':', '')
WithoutPunctuation(s) ==
    LET Kept(c) == c \notin {"\"", "'", ".", ":"}
    IN  SelectSeq(s, Kept)

\* llm.invoke(prompt).strip(), then the replacements, then .strip()
CleanReply(text) == Strip(WithoutPunctuation(Strip(text)))

\* the variant with no fallback: what the model named is returned as it is
select_table_unchecked(keys, reply) ==
    IF Len(keys) = 1 THEN [ret |-> keys[1], asked |-> FALSE, raised |-> FALSE]
    ELSE IF reply.fails
    THEN [ret |-> keys[1], asked |-> TRUE, raised |-> FALSE]
    ELSE [ret |-> CleanReply(reply.text), asked |-> TRUE, raised |-> FALSE]

\* detect_relevant_table after get_db_info gave a schema that is not empty.
\* keys: list(db_info.keys()); reply: what llm.invoke does, failing or
\* returning text.  ret: the name returned; asked: llm.invoke was called.
select_table(keys, reply) ==
    IF Len(keys) = 1
    THEN [ret |-> keys[1], asked |-> FALSE, raised |-> FALSE]
    ELSE IF reply.fails
    THEN [ret |-> keys[1], asked |-> TRUE, raised |-> FALSE]
    ELSE LET response == CleanReply(reply.text)
             same == {i \in 1..Len(keys) :
                         LowerText(keys[i]) = LowerText(response)}
         IN  IF \E i \in 1..Len(keys) : keys[i] = response
             THEN [ret |-> response, asked |-> TRUE, raised |-> FALSE]
             ELSE IF same # {}
             THEN [ret |-> keys[CHOOSE i \in same : \A j \in same : i <= j],
                   asked |-> TRUE, raised |-> FALSE]
             ELSE [ret |-> keys[1], asked |-> TRUE, raised |-> FALSE]

\* list(db_info.keys()) for the tables of the service
KeyTexts(names) ==
    LET Known(n) == n \in names
        known == SelectSeq(TableOrder, Known)
    IN  [i \in 1..Len(known) |-> NameChars[known[i]]]

\* select_table for each schema of the service and each answer of the model
TableSelected ==
    [names \in (SUBSET Tables) \ {{}} |->
        [response \in TableResponses |->
            LET reply == IF response = "fail"
                         THEN [fails |-> TRUE, text |-> <<>>]
                         ELSE [fails |-> FALSE, text |-> NameChars[response]]
                ret == select_table(KeyTexts(names), reply).ret
            IN  CHOOSE n \in names : NameChars[n] = ret]]

\* detect_relevant_table once db_info is known not to be empty
detect_relevant_table(db_info, response) ==
    TableSelected[DOMAIN db_info][response]

\* if query.startswith("'") and query.endswith("'"): query = query[1:-1]
StripQuotePair(query) ==
    IF query # <<>> /\ Head(query) = "'" /\ query[Len(query)] = "'"
    THEN SubSeq(query, 2, Len(query) - 1)
    ELSE query

\* generate_query for a completion of the model
generate_query(response) ==
    SplitJoin(StripQuotePair(fix_markdown_artifacts(Strip(response))))

\* completions of the model asked for a statement
QueryResponses ==
    {<<"x">>, Fence \o <<"x">> \o Fence, <<"'","x","'">>, <<"D","R","O","P">>,
     Fence, <<" ">>}

ErrorMarker == "Error procesando tu pregunta: "
ApologyPrefix == "Lo siento, hubo un error: "
NoResultsAnswer == "No encontre resultados para tu consulta."
CountPrefix == "Encontre "

\* if isinstance(result_dict, list) and len(result_dict) > 50
TruncateAt == 50

NoCount == -1

\* what transform_response gives: the fixed part of the answer, the count and
\* the noun of the count fallback, the payload that was stringified, whether
\* it raised and whether llm.invoke was called
Composed(answer, count, noun, text, raises, asked) ==
    [answer |-> answer, count |-> count, noun |-> noun, text |-> text,
     raises |-> raises, asked |-> asked]

NoText == [kind |-> "none"]

\* transform_response for the value result of json.loads(result_json);
\* composed: the completion of the model arrives.  A payload is
\*   rows               a list of n elements
\*   refusal, error, sqlerror   an object with the key "error"
\*   object             an object of n keys, none of them "error"
\*   text               a string of n characters; error = "error" when it
\*                      holds that word
\*   number, null       a number, true, false or null
\*   invalid            no JSON at all
transform_response(result, composed) ==
    IF result.kind = "invalid"
    THEN Composed(ApologyPrefix, NoCount, "", NoText, FALSE, FALSE)
    ELSE IF result.kind \in {"number", "null"}
    THEN Composed("", NoCount, "", NoText, TRUE, FALSE)
    ELSE IF result.kind = "text" /\ result.error = "error"
    THEN Composed("", NoCount, "", NoText, TRUE, FALSE)
    ELSE IF result.kind \in {"refusal", "error", "sqlerror"}
    THEN Composed(ApologyPrefix, NoCount, "", NoText, FALSE, FALSE)
    ELSE IF result.n = 0
    THEN Composed(NoResultsAnswer, NoCount, "", NoText, FALSE, FALSE)
    ELSE LET shown == IF result.kind = "rows" /\ result.n > TruncateAt
                      THEN TruncateAt ELSE result.n
         IN  IF composed
             THEN Composed("completion", NoCount, "", NoText, FALSE, TRUE)
             ELSE IF result.kind = "rows"
             THEN Composed(CountPrefix, shown,
                           IF shown # 1 THEN "resultados" ELSE "resultado",
                           NoText, FALSE, TRUE)
             ELSE Composed("str", NoCount, "", result, FALSE, TRUE)

\* a handler that lets everything but ValidationError through
process_question_except_validation_only(stage, c, raised, opened, closed) ==
    [cache |-> c, returned |-> stage = "validation",
     answer |-> IF stage = "validation" THEN ErrorMarker ELSE "",
     raised |-> raised \cup {stage}, failed |-> {},
     opened |-> opened, closed |-> closed]

\* except Exception as e: return {"answer": f"Error procesando ... {e}"}
\* what a call that raised in stage, having left cache c, gives its caller
process_question_except(stage, c, raised, opened, closed) ==
    [cache |-> c, returned |-> TRUE, answer |-> ErrorMarker,
     raised |-> raised \cup {stage}, failed |-> {},
     opened |-> opened, closed |-> closed]

\* a generate_query that hands the failure back as its result
generate_query_except_returns == [raises |-> FALSE]

\* except Exception as e: raise Exception(f"Error generando consulta: {e}")
\* a failure of llm.invoke leaves generate_query as an exception
generate_query_except == [raises |-> TRUE]

\* the value of query when generate_query raised
NoQuery == <<"?">>

\* generate_query, execute_query and transform_response in a row: what they
\* leave of a request, for every completion and every answer of the database
\* (trace: the stages started; llm: the calls of llm.invoke; sent: the
\* statements sent to the database; query: what generate_query returned)
QueryStages ==
    (IF generate_query_except.raises
     THEN {[raised |-> {"synthesis"}, failed |-> {}, answer |-> ErrorMarker,
            opened |-> 0, closed |-> 0,
            trace |-> <<"Synthesize">>, llm |-> 1, sent |-> 0,
            query |-> NoQuery]}
     ELSE {})
    \cup
    UNION {
      {[raised |-> {},
        failed |-> (IF x.result.kind # "rows" THEN {"execution"} ELSE {})
                   \cup (IF x.result.kind = "rows" /\ x.result.n > 0 /\ ~composed
                         THEN {"composition"} ELSE {}),
        answer |-> transform_response(x.result, composed).answer,
        opened |-> x.opened, closed |-> x.closed,
        trace |-> <<"Synthesize", "Execute", "Compose">>,
        llm |-> IF x.result.kind = "rows" /\ x.result.n > 0 THEN 2 ELSE 1,
        sent |-> Len(SentBy(x.attempts)),
        query |-> query] :
          x \in UNION {ExecuteQuery(query, outcome) : outcome \in DbOutcomes},
          composed \in BOOLEAN} :
      query \in {generate_query(response) : response \in QueryResponses}
                \cup (IF generate_query_except.raises THEN {} ELSE {NoQuery})}

\* a sample fetch with no try around it: its exception ends the request
sample_stage_unguarded(s) ==
    [fatal |-> s.raised # "none",
     raised |-> IF s.raised # "none" THEN {"sample"} ELSE {},
     table_sample |-> s.raised = "none"]

\* try: table_sample = get_table_sample(...)
\* except Exception: table_sample = None
\* (s: what get_table_sample did; table_sample: a sample was obtained)
sample_stage(s) ==
    [fatal |-> FALSE,
     raised |-> IF s.raised # "none" THEN {"sample"} ELSE {},
     table_sample |-> s.raised = "none"]

\* at most one table whose get_columns raises
BrokenChoices(tables) == {{}} \cup {{n} : n \in tables}

\* llm.invoke is called by detect_relevant_table unless one table is known
SelectionCalls(db_info) == IF Cardinality(DOMAIN db_info) = 1 THEN 0 ELSE 1

\* process_question at tick t on a database holding tables: the set of ways
\* the request can end, one for each behaviour of the database and the model.
\* Beside what it returns, a way holds the stages started in order (trace),
\* the calls of llm.invoke (llm), the accesses to the database (fetches),
\* the query synthesized and whether synthesis was given sample values.
process_question(c, question, t, tables) ==
    LET Ended(r, trace, llm, fetches, query, sample_context) ==
            r @@ [trace |-> trace, llm |-> llm, fetches |-> fetches,
                  query |-> query, sample_context |-> sample_context]
        Synthesis(c4, raised, opened, closed, trace, llm, fetches, sampled) ==
            {Ended(IF "synthesis" \in q.raised
                   THEN process_question_except("synthesis", c4, raised,
                                                opened, closed)
                   ELSE [cache |-> c4, returned |-> TRUE, answer |-> q.answer,
                         raised |-> raised, failed |-> q.failed,
                         opened |-> opened + q.opened,
                         closed |-> closed + q.closed],
                   trace \o q.trace, llm + q.llm, fetches + q.sent,
                   q.query, sampled) : q \in QueryStages}
        Sample(c3, table_name, trace, llm, fetches) ==
            UNION {IF sample_stage(s).fatal
                   THEN {Ended(process_question_except("sample", s.cache, {},
                                                       s.opened, s.closed),
                               Append(trace, "FetchSample"), llm,
                               fetches + s.fetched, NoQuery, FALSE)}
                   ELSE Synthesis(s.cache, sample_stage(s).raised,
                                  s.opened, s.closed,
                                  Append(trace, "FetchSample"), llm,
                                  fetches + s.fetched,
                                  sample_stage(s).table_sample) :
                     s \in {get_table_sample(c3, table_name, t, tables,
                                             up, conn, run) :
                              up \in BOOLEAN, conn \in BOOLEAN, run \in BOOLEAN}}
        Schema(c2, table_name, trace, llm, fetches) ==
            UNION {IF i.raised # "none"
                   THEN {Ended(process_question_except("schema", i.cache, {},
                                                       0, 0),
                               Append(trace, "FetchSchema"), llm,
                               fetches + i.fetched, NoQuery, FALSE)}
                   ELSE Sample(i.cache, table_name,
                               Append(trace, "FetchSchema"), llm,
                               fetches + i.fetched) :
                     i \in {get_table_info(c2, table_name, t, tables, up) :
                              up \in BOOLEAN}}
        Selection(trace) ==
            UNION {IF DOMAIN d.ret = {}
                   THEN {Ended(process_question_except("selection", d.cache,
                                                       {}, 0, 0),
                               Append(trace, "SelectTable"), 0, d.fetched,
                               NoQuery, FALSE)}
                   ELSE UNION {Schema(d.cache, table_name,
                                      Append(trace, "SelectTable"),
                                      SelectionCalls(d.ret), d.fetched) :
                                 table_name \in
                                   {detect_relevant_table(d.ret, response) :
                                      response \in TableResponses}} :
                     d \in {get_db_info(c, t, tables, up, broken) :
                              up \in BOOLEAN, broken \in BrokenChoices(tables)}}
    IN  IF ~validate_text_input(question)
        THEN {Ended(process_question_except("validation", c, {}, 0, 0),
                    <<"ValidateInput">>, 0, 0, NoQuery, FALSE)}
        ELSE Selection(<<"ValidateInput">>)

(***************************************************************************)
(* Input texts: every concatenation of at most n chunks.                   *)
(***************************************************************************)
RECURSIVE Flatten(_)
Flatten(ss) == IF ss = <<>> THEN <<>> ELSE Head(ss) \o Flatten(Tail(ss))

TextsUpTo(chunks, n) ==
    {Flatten(cs) : cs \in UNION {[1..k -> chunks] : k \in 0..n}}

LimitLower == <<"l","i","m","i","t">>

OptChunks ==
    {Fence, CommentOpen, CommentClose, LimitWord, LimitLower,
     <<"a">>, <<"5">>, <<" ">>, <<"\n">>, <<";">>}

SelectOne == <<"S","E","L","E","C","T"," ","1">>

\* a completion fenced as a code block, on one line and on three
FencedSelect == Fence \o <<"s","q","l"," ">> \o SelectOne \o <<" ">> \o Fence

FencedSelectLines ==
    Fence \o <<"s","q","l","\n">> \o SelectOne \o <<"\n">> \o Fence

OptTexts ==
    TextsUpTo(OptChunks, MaxOptChunks) \cup {FencedSelect, FencedSelectLines}

LimitFive == <<"L","I","M","I","T"," ","5">>

ExecChunks ==
    {<<"D","R","O","P">>, <<"g","r","a","n","t">>, <<"U","p","d","a","t","e">>,
     <<"E","X","E","C">>, <<"e","x","e","c","u","t","e">>,
     <<"-","-">>, <<"/","*">>, <<"*","/">>,
     Fence, LimitFive, <<"x">>, <<" ">>}

\* a keyword cut in two by a fence with its line end, and by an HTML comment
SplitByFence ==
    <<"D","R">> \o Fence \o <<"\n","O","P"," ","T","A","B","L","E"," ","x">>

SplitByComment ==
    <<"D","R">> \o CommentOpen \o CommentClose
               \o <<"O","P"," ","T","A","B","L","E"," ","x">>

ExecTexts ==
    TextsUpTo(ExecChunks, MaxExecChunks) \cup {SplitByFence, SplitByComment}

(***************************************************************************)
(* State.                                                                  *)
(*   sql        the text handed to the optimizer or to execute_query       *)
(*   optOut     what validate_and_enhance_query returned for sql           *)
(*   cache      table_info.cache, in insertion order of its keys           *)
(*   now        the wall clock, in ticks                                   *)
(*   dbTables   the tables the database holds                              *)
(*   checkedOut connections taken from the pool and not yet closed         *)
(*   last       the last completed call: operation, arguments, outcome     *)
(*   calls      the lookups in progress on concurrent threads, by thread   *)
(***************************************************************************)
\* the threads that call the cached lookups at the same time
Threads == {1, 2}

\* no call in progress on any thread, nothing fetched yet
NoCalls ==
    [threads |-> [p \in Threads |-> [pc |-> "idle", result |-> "none"]],
     fetched |-> {}, made |-> 0]

NoCall == [op |-> "none"]
NoOut == [done |-> FALSE, query |-> <<>>, warnings |-> <<>>]

InitRest ==
    /\ calls = NoCalls
    /\ cache = <<>>
    /\ now = 0
    /\ dbTables = {}
    /\ checkedOut = 0
    /\ last = NoCall

serviceVars == <<cache, now, dbTables, checkedOut, last>>

(***************************************************************************)
(* The optimizer applied to an input text.                                 *)
(***************************************************************************)
InitOpt ==
    /\ sql \in OptTexts
    /\ optOut = NoOut
    /\ InitRest

Optimize ==
    /\ ~optOut.done
    /\ optOut' = [done |-> TRUE,
                  query |-> validate_and_enhance_query(sql).query,
                  warnings |-> validate_and_enhance_query(sql).warnings]
    /\ UNCHANGED <<calls, sql, serviceVars>>

NextOpt == Optimize

SpecOpt == InitOpt /\ [][NextOpt]_vars

(***************************************************************************)
(* execute_query applied to an input text.                                 *)
(***************************************************************************)
ExecuteCall(q) ==
    LET refused == GateRefuses(q)
        optimized_query == validate_and_enhance_query(q).query
        fixed_query == fix_markdown_artifacts(q)
    IN
    \E outcome \in DbOutcomes :
        \E r \in ExecuteBody(q, refused, optimized_query, fixed_query, outcome) :
            /\ last' = [op |-> "execute_query", query |-> q,
                        result |-> r.result, attempts |-> r.attempts,
                        opened |-> r.opened, closed |-> r.closed]
            /\ checkedOut' = checkedOut + r.opened - r.closed
            /\ UNCHANGED <<calls, sql, optOut, cache, now, dbTables>>

InitExec ==
    /\ sql \in ExecTexts
    /\ optOut = NoOut
    /\ InitRest

ExecuteInput == last.op = "none" /\ ExecuteCall(sql)

NextExec == ExecuteInput

SpecExec == InitExec /\ [][NextExec]_vars

(***************************************************************************)
(* transform_response applied to a payload.                                *)
(***************************************************************************)
\* the longest list of rows handed to transform_response
MaxRows == 52

ComposePayloads ==
    {[kind |-> "rows", error |-> "", n |-> k] : k \in 0..MaxRows}
    \cup {[kind |-> "object", error |-> "", n |-> k] : k \in 0..2}
    \cup {[kind |-> "text", error |-> "", n |-> k] : k \in {0, 5}}
    \cup {[kind |-> "text", error |-> "error", n |-> 5]}
    \cup {[kind |-> "number", error |-> "", n |-> k] : k \in {0, 5}}
    \cup {[kind |-> "null", error |-> "", n |-> 0],
          [kind |-> "invalid", error |-> "", n |-> 0],
          [kind |-> "error", error |-> "exception", n |-> 0],
          Refusal}

InitCompose ==
    /\ calls = NoCalls
    /\ sql = <<>>
    /\ optOut = NoOut
    /\ cache = <<>>
    /\ now = 0
    /\ dbTables = {}
    /\ checkedOut = 0
    /\ last \in {[op |-> "payload", payload |-> p, composed |-> c] :
                   p \in ComposePayloads, c \in BOOLEAN}

Compose ==
    /\ last.op = "payload"
    /\ last' = [op |-> "transform_response", payload |-> last.payload,
                composed |-> last.composed,
                out |-> transform_response(last.payload, last.composed)]
    /\ UNCHANGED <<calls, sql, optOut, cache, now, dbTables, checkedOut>>

NextCompose == Compose

SpecCompose == InitCompose /\ [][NextCompose]_vars

(***************************************************************************)
(* detect_relevant_table applied to a schema and a reply of the model.     *)
(***************************************************************************)
\* a reply is made of at most this many pieces
MaxReplyChunks == 2

\* table names of a schema; two of them differ by letter case only
SchemaNames ==
    {NameChars.clientes, NameChars.productos,
     <<"C","l","i","e","n","t","e","s">>}

\* list(db_info.keys()): distinct names in the order of the database
Schemas ==
    {k \in UNION {[1..n -> SchemaNames] : n \in 1..3} :
        \A i, j \in DOMAIN k : i # j => k[i] # k[j]}

ReplyChunks ==
    {NameChars.clientes, NameChars.CLIENTES, NameChars.productos,
     NameChars.otra, <<"\"">>, <<"'">>, <<".">>, <<":">>, <<" ">>, <<"\n">>}

Replies ==
    {[fails |-> TRUE, text |-> <<>>]}
    \cup {[fails |-> FALSE, text |-> t] :
            t \in TextsUpTo(ReplyChunks, MaxReplyChunks)}

InitDetect ==
    /\ calls = NoCalls
    /\ sql = <<>>
    /\ optOut = NoOut
    /\ cache = <<>>
    /\ now = 0
    /\ dbTables = {}
    /\ checkedOut = 0
    /\ last \in {[op |-> "schema", keys |-> k, reply |-> r] :
                   k \in Schemas, r \in Replies}

Detect ==
    /\ last.op = "schema"
    /\ last' = [op |-> "detect_relevant_table", keys |-> last.keys,
                reply |-> last.reply,
                out |-> select_table(last.keys, last.reply)]
    /\ UNCHANGED <<calls, sql, optOut, cache, now, dbTables, checkedOut>>

NextDetect == Detect

SpecDetect == InitDetect /\ [][NextDetect]_vars

(***************************************************************************)
(* The service: the cached lookups, clear_cache, execute_query and         *)
(* process_question called one after the other, while the clock advances   *)
(* and tables are dropped and created.  last describes the call that has   *)
(* just completed; a step of the clock or of the database forgets it.      *)
(***************************************************************************)
Init ==
    /\ calls = NoCalls
    /\ sql = <<>>
    /\ optOut = NoOut
    /\ cache = <<>>
    /\ now = 0
    /\ dbTables = Tables
    /\ checkedOut = 0
    /\ last = NoCall

\* the clock advances
Tick ==
    /\ now < MaxTime
    /\ now' = now + 1
    /\ last' = NoCall
    /\ UNCHANGED <<calls, sql, optOut, cache, dbTables, checkedOut>>

\* a table is dropped or created
DropTable ==
    \E t \in dbTables :
        /\ dbTables' = dbTables \ {t}
        /\ last' = NoCall
        /\ UNCHANGED <<calls, sql, optOut, cache, now, checkedOut>>

CreateTable ==
    \E t \in Tables \ dbTables :
        /\ dbTables' = dbTables \cup {t}
        /\ last' = NoCall
        /\ UNCHANGED <<calls, sql, optOut, cache, now, checkedOut>>

\* the value and the timestamp the cache holds for a lookup
StoredValue(op, k) ==
    IF ~HasKey(cache, k) THEN NoValue
    ELSE CASE op = "get_table_info" -> EntryOf(cache, k).table_info
           [] op = "get_table_sample" -> EntryOf(cache, k).table_sample
           [] OTHER -> EntryOf(cache, k).db_info

StoredStamp(op, k) ==
    IF ~HasKey(cache, k) THEN NoTime
    ELSE IF op = "get_table_sample" THEN EntryOf(cache, k).sample_timestamp
    ELSE EntryOf(cache, k).timestamp

\* a completed lookup a: the call, what the cache held for it and what it did
\* (before: the keys in the cache when the call was made)
Lookup(op, k, a) ==
    /\ cache' = a.cache
    /\ checkedOut' = checkedOut + a.opened - a.closed
    /\ last' = [op |-> op, key |-> k,
                before |-> Keys(cache),
                priorValue |-> StoredValue(op, k),
                priorStamp |-> StoredStamp(op, k),
                ret |-> a.ret, raised |-> a.raised, listed |-> a.listed,
                fetched |-> a.fetched, hit |-> a.hit, kept |-> a.kept,
                opened |-> a.opened, closed |-> a.closed,
                swallowed |-> a.swallowed]
    /\ UNCHANGED <<calls, sql, optOut, now, dbTables>>

GetDbInfo ==
    \E up \in BOOLEAN, broken \in BrokenChoices(dbTables) :
        Lookup("get_db_info", DbInfoKey,
               get_db_info(cache, now, dbTables, up, broken))

GetTableInfo ==
    \E table_name \in Tables, up \in BOOLEAN :
        Lookup("get_table_info", table_name,
               get_table_info(cache, table_name, now, dbTables, up))

GetTableSample ==
    \E table_name \in Tables, up \in BOOLEAN, conn \in BOOLEAN, run \in BOOLEAN :
        Lookup("get_table_sample", table_name,
               get_table_sample(cache, table_name, now, dbTables, up, conn, run))

ClearCache ==
    /\ cache' = clear_cache(cache)
    /\ last' = [op |-> "clear_cache"]
    /\ UNCHANGED <<calls, sql, optOut, now, dbTables, checkedOut>>

\* execute_query called on its own (the query endpoint of main.py)
DirectQueries == {<<"x">>, <<"D","R","O","P">>}

ExecuteDirect == \E q \in DirectQueries : ExecuteCall(q)

ProcessQuestion ==
    \E question \in Questions :
        \E r \in process_question(cache, question, now, dbTables) :
            /\ cache' = r.cache
            /\ checkedOut' = checkedOut + r.opened - r.closed
            /\ last' = [op |-> "process_question", question |-> question,
                        returned |-> r.returned,
                        answer |-> r.answer, raised |-> r.raised,
                        failed |-> r.failed,
                        opened |-> r.opened, closed |-> r.closed,
                        trace |-> r.trace, llm |-> r.llm,
                        fetches |-> r.fetches, query |-> r.query,
                        sample_context |-> r.sample_context,
                        cache_changed |-> r.cache # cache]
            /\ UNCHANGED <<calls, sql, optOut, now, dbTables>>

\* the cached lookups alone
NextCache ==
    \/ Tick
    \/ DropTable
    \/ CreateTable
    \/ GetDbInfo
    \/ GetTableInfo
    \/ GetTableSample
    \/ ClearCache

SpecCache == Init /\ [][NextCache]_vars

(***************************************************************************)
(* The cached lookups called from several threads at once: each step is    *)
(* one dictionary operation of one thread.                                 *)
(***************************************************************************)
RaceCalls ==
    {[op |-> op, key |-> k] :
       op \in {"get_table_info", "get_table_sample"}, k \in Tables}
    \cup {[op |-> "get_db_info", key |-> DbInfoKey],
          [op |-> "clear_cache", key |-> DbInfoKey]}

\* a request arrives on a thread that is free
StartCall ==
    \E p \in Threads, call \in RaceCalls :
        /\ calls.threads[p].pc = "idle"
        /\ calls.made < MaxCalls
        /\ calls' = [calls EXCEPT
                       !.threads[p] = NewCall(call.op, call.key, now),
                       !.made = @ + 1]
        /\ UNCHANGED <<sql, optOut, cache, now, dbTables, checkedOut, last>>

\* a thread in a call does its next operation on the cache
ThreadStep ==
    \E p \in Threads :
        /\ calls.threads[p].pc # "idle"
        /\ \E r \in {thread_step(cache, now, dbTables, calls.threads[p])} :
              /\ cache' = r.cache
              /\ calls' = [calls EXCEPT
                             !.threads[p] = r.thread,
                             !.fetched = @ \cup r.fetched]
        /\ UNCHANGED <<sql, optOut, now, dbTables, checkedOut, last>>

NextRace ==
    \/ StartCall
    \/ ThreadStep

SpecRace == Init /\ [][NextRace]_vars

\* the whole service
Next ==
    \/ NextCache
    \/ ExecuteDirect
    \/ ProcessQuestion

Spec == Init /\ [][Next]_vars

\* requests on their own: process_question, with the sample lookup called
\* apart, the clock and the schema changes
NextRequest ==
    \/ Tick
    \/ DropTable
    \/ CreateTable
    \/ ClearCache
    \/ GetTableSample
    \/ ProcessQuestion

SpecRequest == Init /\ [][NextRequest]_vars

\* every call that acquires a connection
NextConnections ==
    \/ NextRequest
    \/ ExecuteDirect

SpecConnections == Init /\ [][NextConnections]_vars

(***************************************************************************)
(* Claims about the optimizer (SpecOpt).                                   *)
(***************************************************************************)
\* the text holds exactly one LIMIT n clause, and that clause is LIMIT 1000
OnlyDefaultLimit(s) ==
    \E i \in 1..Len(s) :
        /\ LimitClauseStarts(s) = {i}
        /\ SubSeq(s, i, LimitMatchEnd(s, i) - 1) = Tail(DefaultLimit)

\* C10 as stated: for every text with no LIMIT n clause (case-insensitive),
\* validate_and_enhance_query returns a text with exactly one LIMIT clause,
\* which is LIMIT 1000.
C10_NoLimitGetsDefault ==
    (optOut.done /\ ~HasLimitClause(sql)) => OnlyDefaultLimit(optOut.query)

\* C10 amended: for every text whose form after the markdown-artifact step
\* (fences and HTML comments removed, whitespace collapsed) has no LIMIT n
\* clause, validate_and_enhance_query returns a text with exactly one LIMIT
\* clause, which is LIMIT 1000.
C10_CleanedNoLimitGetsDefault ==
    (optOut.done /\ ~HasLimitClause(fix_markdown_artifacts(sql)))
        => OnlyDefaultLimit(optOut.query)

\* a text with a terminator, and the word LIMIT but no LIMIT n clause, was
\* optimized and the default cap was appended
C10_Witness ==
    /\ optOut.done
    /\ ~HasLimitClause(fix_markdown_artifacts(sql))
    /\ ContainsCI(sql, LimitWord)
    /\ Contains(sql, <<";">>)
    /\ WarnResilience \in Range(optOut.warnings)
    /\ OnlyDefaultLimit(optOut.query)

\* C16 as stated: the fenced text FENCE sql SELECT 1 FENCE handed to
\* validate_and_enhance_query comes back as the bare statement SELECT 1,
\* with the warning that markdown artifacts were removed.
C16_FencedGivesBareStatement ==
    (optOut.done /\ sql = FencedSelect) =>
        /\ optOut.query = SelectOne
        /\ WarnMarkdown \in Range(optOut.warnings)

\* C16 amended: the fenced text FENCE sql SELECT 1 FENCE handed to
\* validate_and_enhance_query comes back as SELECT 1 LIMIT 1000, with the
\* warning that markdown artifacts were removed followed by the warning that
\* resilience elements were added; SELECT 1 is what fix_markdown_artifacts
\* alone returns for it.
C16_FencedGivesCappedStatement ==
    (optOut.done /\ sql = FencedSelect) =>
        /\ fix_markdown_artifacts(sql) = SelectOne
        /\ optOut.query = SelectOne \o DefaultLimit
        /\ optOut.warnings = <<WarnMarkdown, WarnResilience>>

\* the fenced text was optimized and the markdown warning was given
C16_Witness ==
    /\ optOut.done
    /\ sql = FencedSelect
    /\ optOut.warnings # <<>>
    /\ Head(optOut.warnings) = WarnMarkdown

\* C11: the optimizer is idempotent: validate_and_enhance_query applied to
\* its own output returns that output unchanged with no warning, and each of
\* fix_markdown_artifacts, add_error_resilience and fix_sql_syntax_issues
\* applied to its own output returns it unchanged.
C11_OptimizerIdempotent ==
    optOut.done =>
        /\ validate_and_enhance_query(optOut.query)
              = [query |-> optOut.query, warnings |-> <<>>]
        /\ fix_markdown_artifacts(fix_markdown_artifacts(sql))
              = fix_markdown_artifacts(sql)
        /\ add_error_resilience(add_error_resilience(sql))
              = add_error_resilience(sql)
        /\ fix_sql_syntax_issues(fix_sql_syntax_issues(sql))
              = fix_sql_syntax_issues(sql)

(***************************************************************************)
(* Claims about execute_query (SpecExec).                                  *)
(***************************************************************************)
ExecDone == last.op = "execute_query"

\* the call answered with the fixed refusal and never reached the database
RefusedUntouched ==
    /\ last.result = Refusal
    /\ last.opened = 0
    /\ SentBy(last.attempts) = <<>>

\* C1: a text that holds one of the ten mutating keywords as a whole word, in
\* any letter casing, is answered with the fixed refusal payload; no
\* connection is acquired and no statement is executed.
C1_KeywordRefused ==
    (ExecDone /\ \E w \in MutatingKeywords : HasWholeWordCI(last.query, w))
        => RefusedUntouched

\* a keyword written in another casing than upper case was refused
C1_Witness ==
    /\ ExecDone
    /\ \E w \in MutatingKeywords :
          HasWholeWordCI(last.query, w) /\ ~Contains(last.query, w)
    /\ RefusedUntouched

\* C2: the gate of execute_query also refuses, without reaching the database,
\* every statement with an inline comment marker, a block comment, or the
\* word EXEC or EXECUTE.
C2_CommentsAndExecRefused ==
    (ExecDone /\ (\/ HasInlineComment(last.query)
                  \/ HasBlockComment(last.query)
                  \/ \E w \in ExecKeywords : HasWholeWordCI(last.query, w)))
        => RefusedUntouched

\* C9: when the database rejects the statement, the diagnosis is the
\* auto-fixable markdown category and the optimized text equalled the
\* original, the fixed statement is executed exactly one more time; and no
\* call sends more than two statements.
C9_RetriesOnceOnMarkdown ==
    ExecDone =>
        /\ Len(SentBy(last.attempts)) <= 2
        /\ (/\ last.attempts # <<>>
            /\ last.attempts[1].outcome = "sqlerror"
            /\ last.attempts[1].error_type = "markdown_artifacts"
            /\ last.attempts[1].optimized = last.attempts[1].query)
              => Len(last.attempts) = 2

\* what the source does instead: one statement at most, never a retry
ExecNeverRetries == ExecDone => Len(last.attempts) <= 1

\* C20: the gate has no false negative with respect to what is executed:
\* for every input text, each statement that execute_query sends to the
\* database, on the first attempt and on a retry, holds none of the
\* forbidden keywords.
C20_NoKeywordReachesDatabase ==
    ExecDone =>
        \A i \in 1..Len(SentBy(last.attempts)) :
            \A word \in forbidden_words :
                ~ContainsCI(SentBy(last.attempts)[i], word)

(***************************************************************************)
(* Claims about the cached lookups (SpecCache).                            *)
(***************************************************************************)
IsLookup == last.op \in {"get_db_info", "get_table_info", "get_table_sample"}

\* the call found a stamped value for its key in the cache
Held ==
    /\ IsLookup
    /\ last.priorStamp # NoTime
    /\ (last.op = "get_db_info" \/ last.priorValue # NoValue)

\* the value returned was read from the database at the time of the call
ReadNow ==
    IF last.op = "get_db_info"
    THEN /\ DOMAIN last.ret \subseteq dbTables
         /\ \A n \in DOMAIN last.ret : last.ret[n] = DataAt(now)
    ELSE last.ret = DataAt(now)

\* the call stored what it returned, stamped with the time of the call
StoredNow ==
    /\ HasKey(cache, last.key)
    /\ StoredStamp(last.op, last.key) = now
    /\ StoredValue(last.op, last.key) = last.ret

\* the fetch failed and nothing was stored for the key
FetchFailed ==
    /\ IF last.op = "get_db_info" THEN last.ret = EmptyMap
       ELSE last.raised # "none"
    /\ HasKey(cache, last.key) => StoredStamp(last.op, last.key) = last.priorStamp

\* C5: for each cached lookup, a call that finds its key's value in the cache
\* less than the expiry window after it was stored returns that value without
\* querying the database and leaves the entry as it was; a call that finds it
\* a full window or more after it was stored queries the database exactly
\* once and, when the query succeeds, returns and stores the new value with
\* the time of the call as timestamp.
C5_FreshServedExpiredRefetched ==
    Held =>
        IF now - last.priorStamp < CACHE_EXPIRY_HOURS * TicksPerHour
        THEN /\ last.hit
             /\ last.fetched = 0
             /\ last.ret = last.priorValue
             /\ StoredStamp(last.op, last.key) = last.priorStamp
             /\ StoredValue(last.op, last.key) = last.priorValue
        ELSE /\ ~last.hit
             /\ last.fetched = 1
             /\ (StoredNow /\ ReadNow) \/ FetchFailed

\* a table's schema stored a full window ago was fetched again and the new
\* value, which differs from the stored one, replaced it
C5_Witness ==
    /\ Held
    /\ last.op = "get_table_info"
    /\ now - last.priorStamp >= CACHE_EXPIRY_HOURS * TicksPerHour
    /\ last.fetched = 1
    /\ StoredNow
    /\ last.ret # last.priorValue

\* C6: the cache never holds more than MAX_CACHE_SIZE distinct keys.
C6_CacheWithinMax == Len(cache) <= MAX_CACHE_SIZE

\* the lookup removed entries before fetching
Evicted == IsLookup /\ last.kept # <<>>

\* the keys kept are the most recently inserted ones, in order
KeptNewest ==
    last.kept[1] = SubSeq(last.before, (Len(last.before) \div 2) + 1,
                          Len(last.before))

AfterEviction == IF Evicted THEN last.kept[1] ELSE last.before

LookupFailed ==
    /\ IsLookup
    /\ \/ last.raised # "none"
       \/ /\ last.op = "get_db_info"
          /\ last.ret = EmptyMap
          /\ last.swallowed # "none"

\* nothing was stored or refreshed for the key of the call
NothingStored ==
    /\ StoredStamp(last.op, last.key) \in {last.priorStamp, NoTime}
    /\ StoredValue(last.op, last.key) \in {last.priorValue, NoValue}

\* the call that follows a failed lookup, for the same key
SameLookupAgain ==
    /\ LookupFailed
    /\ last'.op = last.op
    /\ last'.key = last.key

\* C22: a failed lookup is never cached: when get_table_info or
\* get_table_sample raises, or get_db_info returns the empty mapping because
\* introspection failed, no value and no timestamp is stored or refreshed for
\* the key, and the next call for that key queries the database again.
C22_FailedLookupNotCached ==
    /\ [](LookupFailed => NothingStored)
    /\ [][SameLookupAgain => last'.fetched = 1]_vars

InfoDone == last.op = "get_table_info"

NotFoundListingTables == last.raised = "not_found" /\ last.listed = dbTables

QuestionDone == last.op = "process_question"

\* C3 as stated: process_question always returns a mapping with an answer,
\* and when a stage raised, the answer starts with the error marker.
C3_AnyRaiseGivesMarker ==
    QuestionDone =>
        /\ last.returned
        /\ last.raised # {} => last.answer = ErrorMarker

\* C3 amended: process_question always returns a mapping with an answer; when
\* validation, table selection, schema fetch or synthesis raised, the answer
\* starts with the error marker; an exception of the sample fetch alone is
\* swallowed and the request goes on to synthesis.
C3_ReturnsAnswerMarkerUnlessSampleOnly ==
    QuestionDone =>
        /\ last.returned
        /\ last.answer # ""
        /\ (last.raised \ {"sample"}) # {} => last.answer = ErrorMarker
        /\ last.raised \subseteq {"sample"} =>
              last.answer \in {ApologyPrefix, NoResultsAnswer, CountPrefix,
                               "completion"}

\* the sample fetch raised and was swallowed, then synthesis raised
C3_Witness ==
    /\ QuestionDone
    /\ last.raised = {"sample", "synthesis"}
    /\ last.returned
    /\ last.answer = ErrorMarker

\* C4: every connection acquired by execute_query or get_table_sample is
\* closed before the call ends, on every exit path, so no connection is
\* checked out between calls.
C4_ConnectionsReleased ==
    /\ checkedOut = 0
    /\ last.op \in {"execute_query", "get_table_sample", "process_question"}
          => last.closed = last.opened

\* the database rejected the statement of execute_query and the connection
\* was closed
C4_Witness ==
    /\ last.op = "execute_query"
    /\ last.result.kind = "sqlerror"
    /\ last.opened = 1
    /\ last.closed = 1
    /\ checkedOut = 0

\* the question is too short, too long or holds a forbidden control character
QuestionInvalid ==
    \/ last.question.len < min_length
    \/ last.question.len > max_length
    \/ last.question.control

\* the request ended in validation: nothing else was started or touched
StoppedAtValidation ==
    /\ last.raised = {"validation"}
    /\ last.trace = <<"ValidateInput">>
    /\ last.llm = 0
    /\ last.fetches = 0
    /\ last.opened = 0
    /\ ~last.cache_changed

\* C12: when the question is shorter than 5 characters, longer than 500 or
\* holds a forbidden control character, process_question fails validation
\* before any table selection, schema or sample fetch, LLM call or database
\* access takes place.
C12_InvalidQuestionStopsAtValidation ==
    (QuestionDone /\ QuestionInvalid) => StoppedAtValidation

\* a question of admissible length with a control character was stopped
C12_Witness ==
    /\ QuestionDone
    /\ last.question.control
    /\ last.question.len = min_length
    /\ StoppedAtValidation
    /\ last.answer = ErrorMarker

AllStages ==
    <<"ValidateInput", "SelectTable", "FetchSchema", "FetchSample",
      "Synthesize", "Execute", "Compose">>

\* C13: a failure of the sample fetch is not fatal: when get_table_sample
\* raises, synthesis is still run, with no sample context; and when nothing
\* else raises, execution and composition are run too and the answer is not
\* the top-level error answer.
C13_SampleFailureNotFatal ==
    (QuestionDone /\ "sample" \in last.raised) =>
        /\ ~last.sample_context
        /\ \E i \in 1..Len(last.trace) : last.trace[i] = "Synthesize"
        /\ last.raised = {"sample"} =>
              /\ last.trace = AllStages
              /\ last.answer # ErrorMarker
              /\ last.query # NoQuery

\* the sample fetch raised and the request was answered from the rows found
C13_Witness ==
    /\ QuestionDone
    /\ last.raised = {"sample"}
    /\ last.failed = {}
    /\ last.trace = AllStages
    /\ last.answer = "completion"

SynthesisStarted == \E i \in 1..Len(last.trace) : last.trace[i] = "Synthesize"

\* C14: generate_query either returns a non-empty SQL string or fails with a
\* generation error; it never returns an empty string, also when the
\* completion is empty or holds only fences, comments or whitespace.
C14_QueryNeverEmpty ==
    (QuestionDone /\ SynthesisStarted) =>
        IF "synthesis" \in last.raised
        THEN last.query = NoQuery /\ last.answer = ErrorMarker
        ELSE last.query # <<>>

\* the stage a raised exception came from
StageOf ==
    [validation |-> "ValidateInput", selection |-> "SelectTable",
     schema |-> "FetchSchema", sample |-> "FetchSample",
     synthesis |-> "Synthesize"]

Started(stage) == \E i \in 1..Len(last.trace) : last.trace[i] = stage

\* C17: within one process_question call the stages occur only in the order
\* ValidateInput, SelectTable, FetchSchema, FetchSample, Synthesize, Execute,
\* Compose, each at most once; a stage other than FetchSample that fails is
\* the last stage started; Execute is started only after a Synthesize that
\* returned a query, and Compose only after Execute.
C17_StagesInOrder ==
    QuestionDone =>
        /\ Len(last.trace) \in 1..Len(AllStages)
        /\ last.trace = SubSeq(AllStages, 1, Len(last.trace))
        /\ \A st \in last.raised \ {"sample"} :
              last.trace[Len(last.trace)] = StageOf[st]
        /\ Started("Execute") =>
              /\ Started("Synthesize")
              /\ "synthesis" \notin last.raised
              /\ last.query # NoQuery
        /\ Started("Compose") => Started("Execute")

\* the sample fetch failed, synthesis was started and failed, and nothing was
\* executed
C17_Witness ==
    /\ QuestionDone
    /\ last.raised = {"sample", "synthesis"}
    /\ last.trace = SubSeq(AllStages, 1, 5)
    /\ last.query = NoQuery
    /\ last.answer = ErrorMarker

(***************************************************************************)
(* Claims about detect_relevant_table (SpecDetect).                        *)
(***************************************************************************)
DetectDone == last.op = "detect_relevant_table"

\* equal but for letter case
SameCI(a, b) == Len(a) = Len(b) /\ HasAtCI(a, 1, b)

\* C18: with a schema that is not empty, detect_relevant_table returns a
\* table of the schema and never raises, for every reply of the model and
\* when the call of the model fails: with one table it returns it without
\* calling the model; with several it returns a table equal to the cleaned
\* reply but for letter case when there is one, and the first table of the
\* schema when there is none or the call fails.
C18_ReturnsTableOfSchema ==
    DetectDone =>
        /\ last.out.ret \in Range(last.keys)
        /\ ~last.out.raised
        /\ Len(last.keys) = 1 => last.out.ret = last.keys[1] /\ ~last.out.asked
        /\ Len(last.keys) > 1 =>
              /\ last.out.asked
              /\ IF /\ ~last.reply.fails
                    /\ \E i \in 1..Len(last.keys) :
                          SameCI(last.keys[i], CleanReply(last.reply.text))
                 THEN SameCI(last.out.ret, CleanReply(last.reply.text))
                 ELSE last.out.ret = last.keys[1]

\* the model named, in quotes and in capitals, a table that is not the first
\* of three, and that table was returned
C18_Witness ==
    /\ DetectDone
    /\ Len(last.keys) = 3
    /\ ~last.reply.fails
    /\ last.reply.text = <<"'">> \o NameChars.CLIENTES
    /\ last.out.ret # last.keys[1]
    /\ last.out.ret # last.reply.text
    /\ SameCI(last.out.ret, NameChars.CLIENTES)

(***************************************************************************)
(* Claims about transform_response (SpecCompose).                          *)
(***************************************************************************)
\* llm.invoke was called and failed
CompositionFailed ==
    /\ last.op = "transform_response"
    /\ last.out.asked
    /\ ~last.composed

\* C15: when the LLM call in transform_response fails and the payload is a
\* list of n >= 1 elements, the fallback answer reports the count n, with the
\* singular noun for n = 1 and the plural otherwise; when the payload is a
\* scalar or an object, the fallback answer is the payload stringified.
C15_FallbackReportsCount ==
    CompositionFailed =>
        IF last.payload.kind = "rows"
        THEN /\ last.out.answer = CountPrefix
             /\ last.out.count = last.payload.n
             /\ last.out.noun = IF last.payload.n = 1 THEN "resultado"
                                ELSE "resultados"
        ELSE /\ last.out.answer = "str"
             /\ last.out.text = last.payload

(***************************************************************************)
(* Claims about concurrent lookups (SpecRace).                             *)
(***************************************************************************)
\* the last call of thread p has ended
CallEnded(p) == calls.threads[p].pc = "idle" /\ calls.threads[p].result # "none"

\* C21: under any interleaving of concurrent calls of get_table_info,
\* get_table_sample, get_db_info and clear_cache on the shared cache, no call
\* raises because of the interleaving, and every value a lookup returns for
\* a key is one that was fetched for that key.
C21_RacesOnlyDuplicateFetches ==
    \A p \in Threads :
        CallEnded(p) =>
            /\ calls.threads[p].result = "returned"
            /\ calls.threads[p].op # "clear_cache" =>
                  <<calls.threads[p].op, calls.threads[p].key,
                    calls.threads[p].ret>> \in calls.fetched

=============================================================================
